---- MODULE Spec2Model ----
(***************************************************************************)
(* Model of whatsapp-mcp-server/main_http.py: the JSON-RPC adapter         *)
(* (handle_jsonrpc, _json_error), the legacy event stream (sse_route and   *)
(* its event_generator) and the route table of the Starlette application.  *)
(***************************************************************************)
EXTENDS Integers, Sequences, FiniteSets, TLC

VARIABLES
  request,    \* the HTTP request being served, NoRequest when none is in flight
  response,   \* the HTTP response built for it, NoResponse when none
  calls,      \* the collaborator invocations made while serving the request
  checks,     \* the validation checks the request has passed, in order
  registry,   \* collaborator state: number of tool executions it has started
  conn        \* per connection: the legacy stream opened by GET /sse

vars == <<request, response, calls, checks, registry, conn>>

(***************************************************************************)
(* Bounds of the model.                                                    *)
(***************************************************************************)
MaxRegistry == 2
MaxPings == 2
MaxTicks == 2

(***************************************************************************)
(* JSON-RPC error codes (mcp.types).                                       *)
(***************************************************************************)
PARSE_ERROR == -32700
INVALID_REQUEST == -32600
METHOD_NOT_FOUND == -32601
INVALID_PARAMS == -32602

(***************************************************************************)
(* JSON values as Python sees them after json.loads: a kind and the JSON   *)
(* text.  Absent marks a key that the object does not carry.               *)
(***************************************************************************)
J(kind, text) == [kind |-> kind, text |-> text]
Absent == J("absent", "")
Null == J("null", "null")
EmptyObject == J("object", "{}")
Zero == J("int", "0")

\* Python truthiness, as used by `x or {}`.
Falsy(v) ==
  \/ v.kind = "null"
  \/ v.kind = "int" /\ v.text = "0"
  \/ v.kind = "float" /\ v.text = "0.0"
  \/ v.kind = "bool" /\ v.text = "false"
  \/ v.kind = "str" /\ v.text = ""
  \/ v.kind = "array" /\ v.text = "[]"
  \/ v.kind = "object" /\ v.text = "{}"

\* dict.get(key): None when the key is absent.
Get(v) == IF v = Absent THEN Null ELSE v

\* isinstance(x, dict), isinstance(x, str), isinstance(x, (str, int)):
\* bool is a subclass of int in Python.
IsDict(v) == v.kind = "object"
IsStr(v) == v.kind = "str"
IsStrOrInt(v) == v.kind \in {"str", "int", "bool"}

(***************************************************************************)
(* HTTP requests.  A header value is the sequence of fragments its text is *)
(* made of; the payload object's members jsonrpc, id, method, params and   *)
(* the members name and arguments of its params object are kept beside the *)
(* body (Absent when the body, or params, is not an object carrying them). *)
(***************************************************************************)
ContentTypes ==
  { <<>>, <<"text/plain">>, <<"application/json">>,
    <<"application/json", "; charset=utf-8">> }
AcceptValues == { <<"application/json">>, <<"text/event-stream">> }

JsonrpcValues == { Absent, J("str", "2.0"), J("str", "1.0") }
IdValues ==
  { Absent, Null, J("int", "1"), J("str", "a"), J("bool", "true"),
    J("float", "1.5"), J("array", "[1]") }
MethodValues ==
  { Absent, J("int", "7"), J("str", "initialize"), J("str", "tools/list"),
    J("str", "tools/call"), J("str", "foo") }
ParamsValues ==
  { Absent, Null, J("array", "[]"), J("array", "[1]"), EmptyObject,
    J("object", "{..}") }
NameValues == { Absent, J("str", "search"), J("int", "7") }
ArgumentsValues ==
  { Absent, Null, EmptyObject, J("object", "{q}"), J("array", "[]"),
    J("array", "[1]") }

\* Bodies that are not a JSON object: unparseable text, and documents that
\* parse to an array or a scalar.
OtherBodies ==
  { J("invalid", "{"), J("array", "[]"), J("int", "1"), J("str", "x") }

Req(verb, path, accept, ctype, body, m) ==
  [ verb |-> verb, path |-> path, accept |-> accept, ctype |-> ctype,
    body |-> body, jsonrpc |-> m.jsonrpc, id |-> m.id, method |-> m.method,
    params |-> m.params, name |-> m.name, arguments |-> m.arguments ]

NoMembers ==
  [ jsonrpc |-> Absent, id |-> Absent, method |-> Absent, params |-> Absent,
    name |-> Absent, arguments |-> Absent ]

\* The members of the payload objects: name and arguments exist only inside
\* a params object, and the object is "{}" exactly when it carries neither.
Payloads ==
  { m \in [ jsonrpc : JsonrpcValues, id : IdValues, method : MethodValues,
            params : ParamsValues, name : NameValues,
            arguments : ArgumentsValues ] :
      IF m.params = J("object", "{..}")
        THEN m.name # Absent \/ m.arguments # Absent
        ELSE m.name = Absent /\ m.arguments = Absent }

RpcPaths == { "/mcp", "/sse" }
Paths ==
  { "/sse", "/mcp", "/", "/register", "/.well-known/mcp.json",
    "/.well-known/openid-configuration",
    "/.well-known/oauth-authorization-server",
    "/.well-known/oauth-protected-resource",
    "/.well-known/oauth-protected-resource/sse", "/nope" }
Verbs == { "GET", "POST", "HEAD", "OPTIONS" }

\* POSTs to the JSON-RPC endpoints, with every body and content type.
RpcRequests ==
  { Req("POST", p, <<"application/json">>, c, J("object", "{..}"), m) :
      p \in RpcPaths, c \in ContentTypes, m \in Payloads }
  \cup
  { Req("POST", p, <<"application/json">>, c, b, NoMembers) :
      p \in RpcPaths, c \in ContentTypes, b \in OtherBodies }

\* Requests without a body, to every path and with every verb.
BareRequests ==
  { Req(v, p, a, <<>>, J("invalid", ""), NoMembers) :
      v \in Verbs, p \in Paths, a \in AcceptValues }

Requests == RpcRequests \cup BareRequests

NoRequest == Req("", "", <<>>, <<>>, Absent, NoMembers)

\* What the collaborator does when it is invoked.
Outcomes == { "ok", "raise" }

(***************************************************************************)
(* HTTP responses.  members is the set of keys of a JSON-RPC envelope.     *)
(***************************************************************************)
Resp(status, kind, members, id, code, message, result) ==
  [ status |-> status, kind |-> kind, members |-> members,
    jsonrpc |-> IF "jsonrpc" \in members THEN "2.0" ELSE "",
    id |-> id, code |-> code, message |-> message, result |-> result ]

NoResponse == Resp(0, "none", {}, Absent, 0, "", "")

\* An exception that leaves the endpoint: Starlette answers 500 in plain text.
ServerError == Resp(500, "fault", {}, Absent, 0, "Internal Server Error", "")

\* A static JSON document.
StaticJson(name) == Resp(200, "json", {}, Absent, 0, "", name)

\* The EventSourceResponse wrapping event_generator().
StreamResponse == Resp(200, "stream", {}, Absent, 0, "", "")

\* The router's own answers.
MethodNotAllowed == Resp(405, "text", {}, Absent, 0, "Method Not Allowed", "")
NotFound == Resp(404, "text", {}, Absent, 0, "Not Found", "")

(***************************************************************************)
(* _json_error: the error envelope.                                        *)
(***************************************************************************)
\* A variant that echoes the id whatever its type.
error_id_raw(request_id) == request_id

\* request_id if isinstance(request_id, (str, int)) else 0
error_id(request_id) == IF IsStrOrInt(request_id) THEN request_id ELSE Zero

\* A variant that also sets a null result.
JsonErrorWithResult(code, message, request_id) ==
  Resp(200, "envelope", {"jsonrpc", "id", "error", "result"},
       error_id(request_id), code, message, "null")

\* exclude_none drops the error's data member; result is never set.
JsonError(code, message, request_id) ==
  Resp(200, "envelope", {"jsonrpc", "id", "error"}, error_id(request_id),
       code, message, "")

\* The success envelope of handle_jsonrpc: the id is the request's, as is.
JsonResult(request_id, result) ==
  Resp(200, "envelope", {"jsonrpc", "id", "result"}, request_id, 0, "",
       result)

(***************************************************************************)
(* handle_jsonrpc.  Each operator returns the response, the collaborator   *)
(* invocations made on the way and the checks passed before it returned.   *)
(***************************************************************************)
Done(resp, invoked, passed) ==
  [ response |-> resp, calls |-> invoked, checks |-> passed ]

Invocation(fn, name, arguments) ==
  [ fn |-> fn, name |-> name, arguments |-> arguments ]

\* "application/json" not in request.headers.get("content-type", "")
HasJsonContentType(ctype) ==
  \E i \in 1..Len(ctype) : ctype[i] = "application/json"

\* await request.json() raises
ParseFails(body) == body.kind = "invalid"

\* payload.get("params") or {}, and params.get("arguments") or {}
OrEmptyObject(v) == IF Falsy(v) THEN EmptyObject ELSE v

\* params.get(key) on the value left in params: the members travel with the
\* request's own params object; the substituted {} has none.
ParamsGet(req, params, member) ==
  IF params = req.params THEN Get(member) ELSE Null

\* A variant that does not look at the id.
EnvelopeRejectedNoId(jsonrpc, request_id, method) ==
  \/ jsonrpc # J("str", "2.0")
  \/ ~IsStr(method)

\* payload.get("jsonrpc") != "2.0" or request_id is None
\*   or not isinstance(method, str)
EnvelopeRejected(jsonrpc, request_id, method) ==
  \/ jsonrpc # J("str", "2.0")
  \/ request_id = Null
  \/ ~IsStr(method)

initialize(request_id, passed) ==
  Done(JsonResult(request_id, "initialize"), <<>>, passed)

tools_list(request_id, outcome, passed) ==
  LET invoked == << Invocation("list_tools", "", Absent) >>
  IN  IF outcome = "raise"
        THEN Done(ServerError, invoked, passed)
        ELSE Done(JsonResult(request_id, "tools"), invoked, passed)

\* A variant that runs the tool before it has validated name and arguments.
tools_call_eager(req, request_id, params, outcome, passed) ==
  IF ~IsDict(params)
    THEN Done(JsonError(INVALID_PARAMS, "params must be an object", request_id),
              <<>>, passed)
    ELSE
      LET name == ParamsGet(req, params, req.name)
          arguments == OrEmptyObject(ParamsGet(req, params, req.arguments))
          invoked == << Invocation("call_tool", name.text, arguments) >>
      IN  IF ~IsStr(name)
            THEN Done(JsonError(INVALID_PARAMS, "params.name is required",
                                request_id),
                      invoked, passed \o <<"params">>)
          ELSE IF ~IsDict(arguments)
            THEN Done(JsonError(INVALID_PARAMS,
                                "params.arguments must be an object",
                                request_id),
                      invoked, passed \o <<"params", "name">>)
          ELSE IF outcome = "raise"
            THEN Done(ServerError, invoked,
                      passed \o <<"params", "name", "arguments">>)
          ELSE Done(JsonResult(request_id, "content"), invoked,
                    passed \o <<"params", "name", "arguments">>)

tools_call(req, request_id, params, outcome, passed) ==
  IF ~IsDict(params)
    THEN Done(JsonError(INVALID_PARAMS, "params must be an object", request_id),
              <<>>, passed)
    ELSE
      LET name == ParamsGet(req, params, req.name)
          arguments == OrEmptyObject(ParamsGet(req, params, req.arguments))
          invoked == << Invocation("call_tool", name.text, arguments) >>
      IN  IF ~IsStr(name)
            THEN Done(JsonError(INVALID_PARAMS, "params.name is required",
                                request_id),
                      <<>>, passed \o <<"params">>)
          ELSE IF ~IsDict(arguments)
            THEN Done(JsonError(INVALID_PARAMS,
                                "params.arguments must be an object",
                                request_id),
                      <<>>, passed \o <<"params", "name">>)
          ELSE IF outcome = "raise"
            THEN Done(ServerError, invoked,
                      passed \o <<"params", "name", "arguments">>)
          ELSE Done(JsonResult(request_id, "content"), invoked,
                    passed \o <<"params", "name", "arguments">>)

\* Dispatch supported MCP methods
dispatch(req, request_id, method, params, outcome, passed) ==
  IF method.text = "initialize" THEN initialize(request_id, passed)
  ELSE IF method.text = "tools/list" THEN tools_list(request_id, outcome, passed)
  ELSE IF method.text = "tools/call"
    THEN tools_call(req, request_id, params, outcome, passed)
  ELSE Done(JsonError(METHOD_NOT_FOUND, "Method not found", request_id),
            <<>>, passed)

handle_jsonrpc(req, outcome) ==
  IF ~HasJsonContentType(req.ctype)
    THEN Done(JsonError(INVALID_REQUEST,
                        "Content-Type must be application/json", Null),
              <<>>, <<>>)
  ELSE IF ParseFails(req.body)
    THEN Done(JsonError(PARSE_ERROR, "Could not parse JSON body", Null),
              <<>>, <<"content-type">>)
  ELSE IF ~IsDict(req.body)
    THEN Done(JsonError(INVALID_REQUEST, "Request body must be a JSON object",
                        Null),
              <<>>, <<"content-type", "json">>)
  ELSE
    LET request_id == Get(req.id)
        method == Get(req.method)
        params == OrEmptyObject(Get(req.params))
    IN  IF EnvelopeRejected(Get(req.jsonrpc), request_id, method)
          THEN Done(JsonError(INVALID_REQUEST, "Invalid JSON-RPC request",
                              request_id),
                    <<>>, <<"content-type", "json", "object">>)
          ELSE dispatch(req, request_id, method, params, outcome,
                        <<"content-type", "json", "object", "envelope">>)

(***************************************************************************)
(* The route table of app, and Starlette's routing over it: the first      *)
(* route whose path and method both match serves the request; a path that  *)
(* matches with another method only is answered 405, no match at all 404.  *)
(* Starlette adds HEAD to every route that lists GET.                      *)
(***************************************************************************)
Route(path, endpoint, methods) ==
  [ path |-> path, endpoint |-> endpoint,
    methods |-> IF "GET" \in methods THEN methods \cup {"HEAD"} ELSE methods ]

Routes ==
  << Route("/sse", "sse_route", {"GET", "POST", "HEAD", "OPTIONS"}),
     Route("/mcp", "handle_jsonrpc", {"POST", "HEAD", "OPTIONS"}),
     Route("/", "descriptor", {"GET"}),
     Route("/", "descriptor", {"POST"}),
     Route("/.well-known/openid-configuration", "openid-configuration",
           {"GET"}),
     Route("/.well-known/oauth-authorization-server",
           "oauth-authorization-server", {"GET"}),
     Route("/.well-known/oauth-protected-resource", "oauth-protected-resource",
           {"GET"}),
     Route("/.well-known/oauth-protected-resource/sse",
           "oauth-protected-resource", {"GET"}),
     Route("/register", "register", {"POST"}),
     Route("/.well-known/mcp.json", "descriptor", {"GET"}) >>

FullMatches(req) ==
  { i \in 1..Len(Routes) :
      Routes[i].path = req.path /\ req.verb \in Routes[i].methods }
PartialMatches(req) == { i \in 1..Len(Routes) : Routes[i].path = req.path }

First(S) == CHOOSE i \in S : \A j \in S : i <= j

Resolve(req) ==
  IF FullMatches(req) # {} THEN Routes[First(FullMatches(req))].endpoint
  ELSE IF PartialMatches(req) # {} THEN "405"
  ELSE "404"

StaticEndpoints ==
  { "descriptor", "openid-configuration", "oauth-authorization-server",
    "oauth-protected-resource", "register" }

\* sse_route: a POST is a JSON-RPC call, anything else opens the stream.
sse_route(req, outcome) ==
  IF req.verb = "POST"
    THEN handle_jsonrpc(req, outcome)
    ELSE Done(StreamResponse, <<>>, <<>>)

(***************************************************************************)
(* The request/response cycle.                                             *)
(***************************************************************************)
Idle == request = NoRequest

\* The collaborator's state after the invocations of one request.
ToolRuns(invoked) ==
  Cardinality({ i \in 1..Len(invoked) : invoked[i].fn = "call_tool" })

Serve(req, done) ==
  /\ registry + ToolRuns(done.calls) <= MaxRegistry
  /\ request' = req
  /\ response' = done.response
  /\ calls' = done.calls
  /\ checks' = done.checks
  /\ registry' = registry + ToolRuns(done.calls)
  /\ UNCHANGED conn

\* Route("/mcp", handle_jsonrpc, ...)
McpRoute ==
  /\ Idle
  /\ \E req \in Requests, outcome \in Outcomes :
       /\ Resolve(req) = "handle_jsonrpc"
       /\ Serve(req, handle_jsonrpc(req, outcome))

\* Route("/sse", sse_route, ...)
SseRoute ==
  /\ Idle
  /\ \E req \in Requests, outcome \in Outcomes :
       /\ Resolve(req) = "sse_route"
       /\ Serve(req, sse_route(req, outcome))

\* The routes that answer with a fixed JSON document.
StaticRoute ==
  /\ Idle
  /\ \E req \in Requests :
       /\ Resolve(req) \in StaticEndpoints
       /\ Serve(req, Done(StaticJson(Resolve(req)), <<>>, <<>>))

\* The router's answer when no route serves the request.
NoRoute ==
  /\ Idle
  /\ \E req \in Requests :
       \/ /\ Resolve(req) = "405"
          /\ Serve(req, Done(MethodNotAllowed, <<>>, <<>>))
       \/ /\ Resolve(req) = "404"
          /\ Serve(req, Done(NotFound, <<>>, <<>>))

\* The response is sent; the request's envelope and locals are discarded.
Send ==
  /\ ~Idle
  /\ request' = NoRequest
  /\ response' = NoResponse
  /\ calls' = <<>>
  /\ checks' = <<>>
  /\ UNCHANGED <<registry, conn>>

(***************************************************************************)
(* The legacy stream of GET /sse: sse_route's event_generator, driven by   *)
(* the EventSourceResponse that wraps it.                                  *)
(***************************************************************************)
Conns == { "c1", "c2" }

Stream(gen, client, frames, ticks) ==
  [ gen |-> gen, client |-> client, frames |-> frames, ticks |-> ticks ]
NoStream == Stream("none", "none", <<>>, 0)

\* The frame event_generator yields: a notification, so it has no id member.
HandshakeFrame ==
  [ type |-> "data", event |-> "message", method |-> "initialize",
    members |-> {"jsonrpc", "method", "params"} ]
\* The keep-alive comment EventSourceResponse sends on its own period.
PingFrame == [ type |-> "comment", event |-> "", method |-> "", members |-> {} ]

\* A variant whose loop yields the frame again after every sleep.
event_generator_chatty(s) ==
  IF s.gen = "created"
    THEN [s EXCEPT !.gen = "yielded", !.frames = Append(@, HandshakeFrame)]
  ELSE IF s.gen = "yielded"
    THEN [s EXCEPT !.gen = "sleeping"]
  ELSE [s EXCEPT !.ticks = @ + 1, !.frames = Append(@, HandshakeFrame)]

\* One run of event_generator from a suspension point to the next: to the
\* yield of the frame, from there into the loop's first sleep, and from one
\* sleep to the next.
event_generator(s) ==
  IF s.gen = "created"
    THEN [s EXCEPT !.gen = "yielded", !.frames = Append(@, HandshakeFrame)]
  ELSE IF s.gen = "yielded"
    THEN [s EXCEPT !.gen = "sleeping"]
  ELSE [s EXCEPT !.ticks = @ + 1]

Running(s) == s.gen \in {"created", "yielded", "sleeping"}

\* GET /sse: sse_route returns EventSourceResponse(event_generator()).
SseOpen(c) ==
  /\ conn[c] = NoStream
  /\ conn' = [conn EXCEPT ![c] = Stream("created", "open", <<>>, 0)]
  /\ UNCHANGED <<request, response, calls, checks, registry>>

\* The response pulls the next item from the generator.
GenNext(c) ==
  /\ Running(conn[c])
  /\ conn[c].ticks < MaxTicks
  /\ conn' = [conn EXCEPT ![c] = event_generator(@)]
  /\ UNCHANGED <<request, response, calls, checks, registry>>

\* The response's own keep-alive, once the stream has started.
Ping(c) ==
  /\ conn[c].gen \in {"yielded", "sleeping"}
  /\ Len(conn[c].frames) <= MaxPings
  /\ conn' = [conn EXCEPT ![c].frames = Append(@, PingFrame)]
  /\ UNCHANGED <<request, response, calls, checks, registry>>

\* The client closes the connection.
ClientClose(c) ==
  /\ conn[c].client = "open"
  /\ conn' = [conn EXCEPT ![c].client = "closed"]
  /\ UNCHANGED <<request, response, calls, checks, registry>>

\* The response sees the disconnect and cancels the task iterating the
\* generator: CancelledError is raised at the await the generator is
\* suspended in, and nothing in event_generator catches it.
Cancel(c) ==
  /\ conn[c].client = "closed"
  /\ Running(conn[c])
  /\ conn' = [conn EXCEPT ![c].gen = "cancelled"]
  /\ UNCHANGED <<request, response, calls, checks, registry>>

(***************************************************************************)
(* Specifications.                                                         *)
(***************************************************************************)
Init ==
  /\ request = NoRequest
  /\ response = NoResponse
  /\ calls = <<>>
  /\ checks = <<>>
  /\ registry = 0
  /\ conn = [c \in Conns |-> NoStream]

Next == McpRoute \/ SseRoute \/ StaticRoute \/ NoRoute \/ Send

Spec == Init /\ [][Next]_vars

SseNext ==
  \E c \in Conns :
    SseOpen(c) \/ GenNext(c) \/ Ping(c) \/ ClientClose(c) \/ Cancel(c)

\* The event loop runs every task that is ready, so a pending cancellation
\* is delivered.
SseSpec == Init /\ [][SseNext]_vars /\ \A c \in Conns : WF_vars(Cancel(c))

(***************************************************************************)
(* Vocabulary of the properties.                                           *)
(***************************************************************************)
Responded == response # NoResponse

\* A POST to /mcp or /sse has been answered.
RpcPost ==
  Responded /\ request.verb = "POST" /\ request.path \in RpcPaths

ObjectBody == request.body.kind = "object"

\* The body was read as JSON and is an object.
ReachedEnvelope == HasJsonContentType(request.ctype) /\ ObjectBody

EnvelopeFieldsOk ==
  /\ request.jsonrpc = J("str", "2.0")
  /\ Get(request.id) # Null
  /\ IsStr(Get(request.method))

ValidEnvelope == ReachedEnvelope /\ EnvelopeFieldsOk

KnownMethods == { "initialize", "tools/list", "tools/call" }

IsError(code) ==
  /\ response.kind = "envelope"
  /\ "error" \in response.members
  /\ response.code = code

Rejection ==
  \E code \in { PARSE_ERROR, INVALID_REQUEST, METHOD_NOT_FOUND,
                INVALID_PARAMS } : IsError(code)

WellFormedEnvelope ==
  /\ response.kind = "envelope"
  /\ response.jsonrpc = "2.0"
  /\ "id" \in response.members
  /\ response.id \notin { Absent, Null }
  /\ ("result" \in response.members) # ("error" \in response.members)

EnvelopeChecks == << "content-type", "json", "object", "envelope" >>
ParamsChecks == << "params", "name", "arguments" >>

(***************************************************************************)
(* C1.  Every POST to /mcp or /sse is answered with a well-formed JSON-RPC *)
(* envelope, also when the collaborator raises.  The code does not catch   *)
(* the collaborator's exception: TLC refutes the statement.                *)
(***************************************************************************)
C1_AlwaysEnvelope == RpcPost => WellFormedEnvelope

(***************************************************************************)
(* C2.  A POST whose body is a JSON object with a jsonrpc member other     *)
(* than "2.0", a method that is not a string, or a null or absent id, is   *)
(* answered with error code Invalid Request, whatever its other fields.    *)
(***************************************************************************)
C2_InvalidRequest ==
  (RpcPost /\ ObjectBody /\ ~EnvelopeFieldsOk) => IsError(INVALID_REQUEST)

C2_Witness ==
  /\ RpcPost /\ ReachedEnvelope
  /\ request.jsonrpc = J("str", "2.0")
  /\ request.id = Null
  /\ request.method = J("str", "tools/call")
  /\ IsError(INVALID_REQUEST)

(***************************************************************************)
(* C3.  As claimed: a POST whose body is not parseable JSON is answered    *)
(* with error code Parse Error and id 0.  The content type is checked      *)
(* first, so the statement holds only of requests that declare JSON.       *)
(***************************************************************************)
C3_ParseErrorAlways ==
  (RpcPost /\ ParseFails(request.body)) =>
    (IsError(PARSE_ERROR) /\ response.id = Zero)

(***************************************************************************)
(* C3, amended.  A POST that declares application/json and whose body      *)
(* cannot be parsed is answered with error code Parse Error and id 0.      *)
(***************************************************************************)
C3_ParseErrorAfterContentType ==
  (RpcPost /\ HasJsonContentType(request.ctype) /\ ParseFails(request.body)) =>
    (IsError(PARSE_ERROR) /\ response.id = Zero)

C3_Witness ==
  /\ RpcPost
  /\ request.ctype = <<"application/json", "; charset=utf-8">>
  /\ ParseFails(request.body)
  /\ IsError(PARSE_ERROR)
  /\ response.id = Zero

(***************************************************************************)
(* C4.  A valid envelope whose method is none of initialize, tools/list,   *)
(* tools/call is answered with error code Method Not Found and with the    *)
(* request's id.  The error envelope replaces an id that is neither a      *)
(* string nor an integer by 0: TLC refutes the statement.                  *)
(***************************************************************************)
C4_MethodNotFoundEchoesId ==
  (RpcPost /\ ValidEnvelope /\ request.method.text \notin KnownMethods) =>
    (IsError(METHOD_NOT_FOUND) /\ response.id = request.id)

(***************************************************************************)
(* C5.  An object body rejected at the envelope-field check is answered    *)
(* with the id the payload carried, whatever its type, and with 0 only     *)
(* when the payload carried none.  TLC refutes the statement.              *)
(***************************************************************************)
C5_RejectionEchoesRawId ==
  (RpcPost /\ ReachedEnvelope /\ ~EnvelopeFieldsOk) =>
    response.id = (IF Get(request.id) = Null THEN Zero ELSE request.id)

(***************************************************************************)
(* C6.  A valid tools/call envelope is answered Invalid Params when params *)
(* is omitted or not an object, when params.name is not a string, or when  *)
(* params.arguments is present and not an object; the tool receives an     *)
(* empty object in place of arguments only when arguments is absent.  TLC  *)
(* refutes the statement, even with a null arguments counted as absent.    *)
(***************************************************************************)
C6_InvalidParams ==
  (RpcPost /\ ValidEnvelope /\ request.method.text = "tools/call") =>
    /\ ( \/ ~IsDict(request.params)
         \/ ~IsStr(Get(request.name))
         \/ Get(request.arguments) # Null /\ ~IsDict(request.arguments) )
       => IsError(INVALID_PARAMS)
    /\ \A i \in 1..Len(calls) :
         (calls[i].arguments = EmptyObject /\ request.arguments # EmptyObject)
           => Get(request.arguments) = Null

(***************************************************************************)
(* C8.  GET /mcp is answered 405, without a stream, when the Accept header *)
(* asks for text/event-stream, and with the static descriptor otherwise.   *)
(* The route does not list GET: TLC refutes the statement.                 *)
(***************************************************************************)
C8_GetPrimary ==
  (Responded /\ request.verb = "GET" /\ request.path = "/mcp") =>
    IF \E i \in 1..Len(request.accept) : request.accept[i] = "text/event-stream"
      THEN response.status = 405 /\ response.kind # "stream"
      ELSE /\ response.status = 200
           /\ response.kind = "json"
           /\ response.result = "descriptor"

(***************************************************************************)
(* C9.  Every envelope answering a POST to /mcp or /sse carries            *)
(* jsonrpc "2.0", an id that is the request's id or 0, and exactly one of  *)
(* result and error: a result without error, or an error with its code and *)
(* message without result.                                                 *)
(***************************************************************************)
C9_EnvelopeShape ==
  (RpcPost /\ response.kind = "envelope") =>
    /\ WellFormedEnvelope
    /\ response.id = request.id \/ response.id = Zero
    /\ "result" \in response.members =>
         response.result # "" /\ response.code = 0 /\ response.message = ""
    /\ "error" \in response.members =>
         response.code # 0 /\ response.message # "" /\ response.result = ""

C9_Witness ==
  /\ RpcPost
  /\ IsError(METHOD_NOT_FOUND)
  /\ request.id = J("str", "a")
  /\ response.id = J("str", "a")

\* What one answered POST has invoked, and after which checks.
C10_Invoked ==
  RpcPost =>
    /\ Len(calls) <= 1
    /\ calls # <<>> =>
         /\ ValidEnvelope
         /\ request.method.text \in { "tools/list", "tools/call" }
         /\ checks = IF calls[1].fn = "call_tool"
                       THEN EnvelopeChecks \o ParamsChecks
                       ELSE EnvelopeChecks
         /\ calls[1].fn = "call_tool" =>
              /\ request.method.text = "tools/call"
              /\ IsDict(request.params)
              /\ IsStr(request.name)
              /\ IsDict(calls[1].arguments)
    /\ Rejection => calls = <<>>

(***************************************************************************)
(* C10.  Within one POST the collaborator is invoked at most once, and     *)
(* only after the content-type, parse, object, envelope and (tools/call)   *)
(* params checks have passed in that order; a request answered with a      *)
(* Parse Error, Invalid Request, Method Not Found or Invalid Params        *)
(* envelope has not invoked it and leaves its state as it was.             *)
(***************************************************************************)
C10_NoPartialDispatch ==
  /\ []C10_Invoked
  /\ [][(RpcPost /\ Rejection)' => registry' = registry]_vars

C10_Witness ==
  /\ RpcPost
  /\ Len(calls) = 1
  /\ calls[1].fn = "call_tool"
  /\ checks = EnvelopeChecks \o ParamsChecks
  /\ registry = 1
  /\ response.result = "content"

\* The frames of every stream, and that a stream runs while its client is
\* connected.
C7_Frames ==
  \A c \in Conns :
    LET s == conn[c] IN
      /\ Len(s.frames) >= 1 =>
           /\ s.frames[1].type = "data"
           /\ s.frames[1].method = "initialize"
           /\ "id" \notin s.frames[1].members
      /\ \A i \in 2..Len(s.frames) : s.frames[i].type = "comment"
      /\ s.client = "open" => Running(s)
      /\ s.gen \in {"yielded", "sleeping"} => Len(s.frames) >= 1

(***************************************************************************)
(* C7.  On GET /sse the first frame of the stream is a notification with   *)
(* method "initialize" and no id; every later frame is a keep-alive; the   *)
(* stream stays open while the client is connected; and once the client    *)
(* has closed the connection the generator's loop ends.                    *)
(***************************************************************************)
C7_LegacyStream ==
  /\ []C7_Frames
  /\ [][\A c \in Conns : conn[c].gen = "cancelled" => conn'[c] = conn[c]]_vars
  /\ \A c \in Conns : (conn[c].client = "closed") ~> (conn[c].gen = "cancelled")

C7_Witness ==
  \E c \in Conns :
    /\ conn[c].gen = "cancelled"
    /\ conn[c].client = "closed"
    /\ conn[c].ticks >= 1
    /\ Len(conn[c].frames) >= 2
    /\ conn[c].frames[1] = HandshakeFrame
    /\ conn[c].frames[2] = PingFrame

====
